---- MODULE Spec2Model ----
(***************************************************************************)
(* HarmoniAPI: payment lifecycle and download entitlements.                *)
(*                                                                         *)
(* The relational datastore is modelled by its committed tables (payments, *)
(* files, links).  Every HTTP request runs in its own database session     *)
(* (db/engine.py get_session): what a request has read or written but not  *)
(* yet committed lives in its entry of req.  A request advances from one   *)
(* await to the next; the committed tables change only when a request      *)
(* commits.                                                                *)
(***************************************************************************)
EXTENDS Integers, FiniteSets, Sequences, TLC

\* ------------------------------------------------------------------ bounds
NumRequests == 3        \* request slots that may be in flight together
NumWebhooks == 2        \* webhook requests that may be in flight together
MaxEvents == 2          \* webhook deliveries in one behaviour
MaxAttempts == 3        \* download requests in one behaviour
MaxPayments == 1        \* payment intents the processor hands out
MaxUses == 2            \* settings.download_link_max_uses of the deployment
MaxPurchases == 3       \* payment intents created in a behaviour of SpecPurchase
MaxCodes == 2           \* verification codes sent in one behaviour

\* --------------------------------------------------------------- universe
Requests == 1..NumRequests
Intents == 1..MaxPayments
NoIntent == 0
NoToken == 0

PendingFamily == {"requires_payment_method", "processing"}
Terminal == {"succeeded", "canceled", "failed"}
Statuses == PendingFamily \cup Terminal

\* tariffs table: t1 is the tariff with the two seeded files, t2 has no file
SeedTariffs == {[id |-> "t1", base_price |-> 4900], [id |-> "t2", base_price |-> 9900]}
Tariffs == {t.id : t \in SeedTariffs}
NoTariff == "none"
UserId == "u1"
UserEmail == "a@x"
\* users table: u1 is verified, u2 is registered but not verified
SeedUsers == {[id |-> UserId, email |-> UserEmail, is_verified |-> TRUE],
              [id |-> "u2", email |-> "b@x", is_verified |-> FALSE]}
\* request bodies of POST /stripe/payment-intent: c@x belongs to nobody and
\* t9 is the id of no tariff
Emails == {u.email : u \in SeedUsers} \cup {"c@x"}
TariffIds == Tariffs \cup {"t9"}
SeedFiles == {[id |-> 1, tariff_id |-> "t1"], [id |-> 2, tariff_id |-> "t1"]}
\* email_verifications table: the redeemed code of u1 and the code sent to u2
SeedVerifications == {[email |-> UserEmail, code |-> 1, verified_at |-> TRUE],
                      [email |-> "b@x", code |-> 2, verified_at |-> FALSE]}
\* the ids that new users get
UserIds == {"u1", "u2", "u3", "u4"}

VARIABLES
    users,      \* users table
    tariffs,    \* tariffs table
    stripe,     \* PaymentIntents created at the payment processor
    payments,   \* payments table (committed rows)
    files,      \* tariff_files table (committed rows)
    disk,       \* ids of the files physically present under upload_dir
    links,      \* download_links table (committed rows)
    outbox,     \* calls of the notification dispatcher (Resend), in order
    req,        \* per request slot: its session and position
    nextToken,  \* source of fresh download_uuid values
    issuedFor,  \* history: issuedFor[t] = intent whose webhook minted token t
    delivered,  \* history: number of webhook deliveries so far
    attempts,   \* history: number of download requests so far
    served,     \* history: served[t] = number of downloads granted on token t
    email_verifications  \* email_verifications table

vars == <<users, tariffs, stripe, payments, files, disk, links, outbox, req, nextToken,
          issuedFor, delivered, attempts, served, email_verifications>>

NoRow == [stripe_payment_intent_id |-> NoIntent, user_id |-> "", tariff_id |-> NoTariff,
          amount |-> 0, currency |-> "", status |-> ""]

Idle == [kind |-> "none", pc |-> "idle", signed |-> TRUE, email |-> "",
         tariff_id |-> NoTariff, processor |-> "", intent |-> NoIntent,
         status |-> "", row |-> NoRow, old_status |-> "", pending |-> {},
         mint_errors |-> 0, broken |-> {}, aborted |-> FALSE, token |-> NoToken, seen |-> 0, file_id |-> 0,
         result |-> 0]

\* the slot of a request that has been answered with HTTP status code
Answered(kind, code) == [Idle EXCEPT !.kind = kind, !.pc = "done", !.result = code]

\* the slot of a download request on token t that has been answered
Downloaded(t, code) == [Answered("download", code) EXCEPT !.token = t]

\* a slot is free when no request occupies it or its request has been answered
Free(r) == req[r].pc \in {"idle", "done"}
Quiet == \A r \in Requests : Free(r)

\* ------------------------------------------------------------ table reads
\* the select without its where clause: whichever payment comes first
PaymentByIntent_Unfiltered(i) ==
    IF payments # {} THEN CHOOSE p \in payments : TRUE ELSE NoRow

\* select(Payment).where(stripe_payment_intent_id == i).scalar_one_or_none()
PaymentByIntent(i) ==
    IF \E p \in payments : p.stripe_payment_intent_id = i
    THEN CHOOSE p \in payments : p.stripe_payment_intent_id = i
    ELSE NoRow

\* select(DownloadLink).where(download_uuid == t).scalar_one_or_none()
NoLink == [download_uuid |-> NoToken, file_id |-> 0, user_email |-> "",
           downloads_count |-> 0, max_downloads |-> 0]

\* a lookup that falls back on some link when the token matches none
get_download_link_by_uuid_Fallback(t) ==
    IF \E l \in links : l.download_uuid = t
    THEN CHOOSE l \in links : l.download_uuid = t
    ELSE IF links # {} THEN CHOOSE l \in links : TRUE ELSE NoLink

get_download_link_by_uuid(t) ==
    IF \E l \in links : l.download_uuid = t
    THEN CHOOSE l \in links : l.download_uuid = t
    ELSE NoLink

\* select(TariffFile).where(id == f).scalar_one_or_none()
get_file_by_id(f) == {x \in files : x.id = f}

\* select(TariffFile).where(tariff_id == t)
FilesOfTariff(t) == {x \in files : x.tariff_id = t}

\* select(User).where(email == e, is_verified == True)
VerifiedUser(e) == {u \in users : u.email = e /\ u.is_verified}

\* select(Tariff).where(id == t)
TariffById(t) == {x \in tariffs : x.id = t}

Init ==
    /\ users = SeedUsers
    /\ tariffs = SeedTariffs
    /\ stripe = {}
    /\ payments = {}
    /\ files = SeedFiles
    /\ disk = {1, 2}
    /\ links = {}
    /\ outbox = <<>>
    /\ req = [r \in Requests |-> Idle]
    /\ nextToken = 1
    /\ issuedFor = <<>>
    /\ delivered = 0
    /\ attempts = 0
    /\ served = <<>>
    /\ email_verifications = SeedVerifications

\* ------------------------------------------------- create_payment_intent
\* the status of the new Payment hardcoded instead of taken from the processor
InitialStatus_Hardcoded(payment_intent) == "requires_payment_method"

\* status=payment_intent.status
InitialStatus(payment_intent) == payment_intent.status

\* a processor error answered like a success, without PaymentIntent
ProcessorFailed_Ignored(accepted) == FALSE

\* StripeAdapter.create_payment_intent raises stripe.error.StripeError
\* (accepted = the processor created the PaymentIntent)
ProcessorFailed(accepted) == ~accepted

\* the eligibility lookup without the is_verified condition
Eligible_AnyUser(email) == {u \in users : u.email = email}

\* "Verify user exists with verified email"
Eligible(email) == VerifiedUser(email)

\* the slot of an answered POST /stripe/payment-intent request; called tells
\* how the call of the processor ended ("" when it was not made)
PaymentAnswered(email, tariff, called, i, code) ==
    [Answered("payment", code) EXCEPT !.email = email, !.tariff_id = tariff,
                                      !.processor = called, !.intent = i]

\* POST /stripe/payment-intent: the whole handler runs on fresh reads and
\* commits one INSERT; the processor picks the intent id i and the initial
\* status of the PaymentIntent it creates.
create_payment_intent(r, email, tariff, accepted, i, initial) ==
    /\ Free(r)
    /\ LET user == Eligible(email)
           tariff_rows == TariffById(tariff)
           called == IF accepted THEN "created" ELSE "error"
       IN  IF user = {}
           THEN /\ req' = [req EXCEPT ![r] =
                            PaymentAnswered(email, tariff, "", NoIntent, 400)]
                /\ UNCHANGED <<stripe, payments>>
           ELSE IF tariff_rows = {}
           THEN /\ req' = [req EXCEPT ![r] =
                            PaymentAnswered(email, tariff, "", NoIntent, 404)]
                /\ UNCHANGED <<stripe, payments>>
           ELSE IF ProcessorFailed(accepted)
           THEN /\ req' = [req EXCEPT ![r] =
                            PaymentAnswered(email, tariff, called, NoIntent, 500)]
                /\ UNCHANGED <<stripe, payments>>
           ELSE LET price == (CHOOSE t \in tariff_rows : TRUE).base_price
                    payment_intent == [id |-> i, amount |-> price, status |-> initial]
                IN  /\ i \notin {x.id : x \in stripe}
                    /\ PaymentByIntent(i) = NoRow
                    /\ stripe' = IF accepted THEN stripe \cup {payment_intent}
                                 ELSE stripe
                    /\ payments' = payments \cup
                         {[stripe_payment_intent_id |-> payment_intent.id,
                           user_id |-> (CHOOSE u \in user : TRUE).id,
                           tariff_id |-> tariff,
                           amount |-> price,
                           currency |-> "usd",
                           status |-> InitialStatus(payment_intent)]}
                    /\ req' = [req EXCEPT ![r] =
                                PaymentAnswered(email, tariff, called, i, 201)]
    /\ UNCHANGED <<served, email_verifications, users, tariffs, files, disk, links, outbox, nextToken,
                   issuedFor, delivered, attempts>>

\* ---------------------------------------------------------- stripe_webhook
\* Row lock of the payments row of intent i: taken by the UPDATE that flush
\* emits and held until the writing session commits or rolls back.
RowLocked(r, i) ==
    \E q \in Requests \ {r} :
        /\ req[q].kind = "webhook"
        /\ req[q].pc \in {"issue", "commit"}
        /\ req[q].row.stripe_payment_intent_id = i

\* a signature check that lets every payload through
verify_webhook_signature_Lenient(valid) == TRUE

\* StripeAdapter.verify_webhook_signature: TRUE when construct_event returns
\* the event, FALSE when it raises (valid = the signature matches the payload)
verify_webhook_signature(valid) == valid

\* the slot of a webhook request rejected with StripeWebhookException
Rejected == [Answered("webhook", 400) EXCEPT !.signed = FALSE]

\* POST /stripe/webhook up to the first datastore read of
\* handle_webhook_event: signature check, event-type filter, payment lookup.
stripe_webhook(r, valid, handled, i, s) ==
    /\ Free(r)
    /\ delivered < MaxEvents
    /\ delivered' = delivered + 1
    /\ LET base == [Idle EXCEPT !.kind = "webhook", !.signed = valid,
                                !.intent = i, !.status = s]
           payment == PaymentByIntent(i)
       IN  req' = [req EXCEPT ![r] =
             IF ~verify_webhook_signature(valid)
             THEN Rejected
             ELSE IF ~handled
             THEN Answered("webhook", 200)
             ELSE IF i = NoIntent \/ payment = NoRow
             THEN [base EXCEPT !.pc = "commit"]
             ELSE [base EXCEPT !.pc = "flush", !.row = payment]]
    /\ UNCHANGED <<served, email_verifications, users, tariffs, stripe, payments, files, disk, links, outbox, nextToken,
                   issuedFor, attempts>>

\* the update that keeps the stored status instead of assigning the event's
handle_webhook_event_Unwritten(r) ==
    /\ req[r].kind = "webhook"
    /\ req[r].pc = "flush"
    /\ ~RowLocked(r, req[r].row.stripe_payment_intent_id)
    /\ req' = [req EXCEPT ![r].old_status = req[r].row.status, ![r].pc = "issue"]
    /\ UNCHANGED <<served, email_verifications, users, tariffs, stripe, payments, files, disk, links, outbox, nextToken,
                   issuedFor, delivered, attempts>>

\* old_status = payment.status; payment.status = status; await session.flush()
handle_webhook_event(r) ==
    /\ req[r].kind = "webhook"
    /\ req[r].pc = "flush"
    /\ ~RowLocked(r, req[r].row.stripe_payment_intent_id)
    /\ req' = [req EXCEPT ![r].old_status = req[r].row.status,
                          ![r].row.status = req[r].status,
                          ![r].pc = "issue"]
    /\ UNCHANGED <<served, email_verifications, users, tariffs, stripe, payments, files, disk, links, outbox, nextToken,
                   issuedFor, delivered, attempts>>

\* the success branch taken for every status that is not a failure
EmailFor_NotFailure(status) ==
    IF status \notin {"failed", "canceled"} THEN "success" ELSE "failure"

\* "Send email based on status": which notification a status leads to
EmailFor(status) ==
    IF status = "succeeded" THEN "success"
    ELSE IF status \in {"failed", "canceled"} THEN "failure"
    ELSE "none"

\* session.flush() of the status update raises: the exception leaves
\* handle_webhook_event and stripe_webhook, get_session rolls back, 500
webhook_flush_fails(r) ==
    /\ req[r].kind = "webhook"
    /\ req[r].pc = "flush"
    /\ req' = [req EXCEPT ![r] = Answered("webhook", 500)]
    /\ UNCHANGED <<served, email_verifications, users, tariffs, stripe, payments, files, disk, links, outbox, nextToken,
                   issuedFor, delivered, attempts>>

\* one uuid generated before the loop and reused for every file
TokenOf_Reused(f, ok) == nextToken

\* uuid.uuid4() for the link of file f among the files minted in this call
TokenOf(f, ok) == nextToken + Cardinality({g \in ok : g.id < f.id})

\* FileService.create_download_link for every file in ok
MintLinks(ok, email) ==
    {[download_uuid |-> TokenOf(f, ok), file_id |-> f.id, user_email |-> email,
      downloads_count |-> 0, max_downloads |-> MaxUses] : f \in ok}

\* the exception of the dispatcher left uncaught: the request fails with 500
LogSendFailure_Raise(slot) == Answered("webhook", 500)

\* "except Exception as e: logger.error(...)" around the call of Resend: the
\* request goes on as if the email had been accepted
LogSendFailure(slot) == slot

\* the slot after the call of Resend (sent = Resend accepted the email)
AfterSend(slot, sent) == IF sent THEN slot ELSE LogSendFailure(slot)

\* the file query without its tariff filter
TariffFilesOf_Unfiltered(payment) == files

\* the files of the payment's tariff that send_success_email iterates over
TariffFilesOf(payment) ==
    IF payment.tariff_id = NoTariff THEN {} ELSE FilesOfTariff(payment.tariff_id)

\* the files whose own mint attempt raised: those that did not get a link,
\* up to the one (if any) whose INSERT the database rejected
BrokenFiles(F, ok, rejected) ==
    {f.id : f \in {g \in F \ ok : \A k \in rejected : g.id <= k.id}}

\* send_success_email: mint one link per tariff file, in the order of the
\* file ids, then call Resend with the URLs of the minted links.
\*   ok       = the files whose create_download_link returned a link;
\*   rejected = the file (if any) whose INSERT raised in session.flush():
\*              the database aborts the transaction, so every later
\*              create_download_link raises as well and the commit fails;
\*   sent     = Resend accepted the email.
\* Every exception of a mint is caught and logged.
send_success_email(r, ok, rejected, sent) ==
    LET payment == req[r].row
        user == {u \in users : u.id = payment.user_id}
        minted == MintLinks(ok, UserEmail)
        F == TariffFilesOf(payment)
    IN  /\ ok \subseteq F
        /\ rejected \subseteq F \ ok
        /\ Cardinality(rejected) <= 1
        /\ \A k \in rejected : \A f \in ok : f.id < k.id
        /\ IF user = {}
           THEN /\ ok = {} /\ rejected = {} /\ ~sent
                /\ req' = [req EXCEPT ![r].pc = "commit"]
                /\ UNCHANGED <<outbox, nextToken, issuedFor, served>>
           ELSE /\ req' = [req EXCEPT ![r] = AfterSend(
                            [req[r] EXCEPT !.pc = "commit", !.pending = minted,
                                           !.mint_errors = Cardinality(F \ ok),
                                           !.broken = BrokenFiles(F, ok, rejected),
                                           !.aborted = (rejected # {})],
                            sent)]
                /\ nextToken' = nextToken + Cardinality(ok)
                /\ issuedFor' = issuedFor \o
                     [j \in 1..Cardinality(ok) |-> payment.stripe_payment_intent_id]
                /\ served' = served \o [j \in 1..Cardinality(ok) |-> 0]
                /\ outbox' = Append(outbox,
                                [kind |-> "success",
                                 to |-> {u.email : u \in user},
                                 intent |-> payment.stripe_payment_intent_id,
                                 urls |-> {l.download_uuid : l \in minted},
                                 accepted |-> sent])

\* send_failure_email: call Resend with the failure email (sent = accepted)
send_failure_email(r, sent) ==
    LET payment == req[r].row
        user == {u \in users : u.id = payment.user_id}
    IN  /\ IF user = {}
           THEN /\ ~sent
                /\ req' = [req EXCEPT ![r].pc = "commit"]
                /\ outbox' = outbox
           ELSE /\ req' = [req EXCEPT ![r] =
                            AfterSend([req[r] EXCEPT !.pc = "commit"], sent)]
                /\ outbox' = Append(outbox,
                                [kind |-> "failure",
                                 to |-> {u.email : u \in user},
                                 intent |-> payment.stripe_payment_intent_id,
                                 urls |-> {},
                                 accepted |-> sent])
        /\ UNCHANGED <<nextToken, issuedFor, served>>

\* the tail with a plain else: every status but 'succeeded' is notified as a
\* failure
handle_webhook_email_ElseFailure(r, ok, rejected, sent) ==
    /\ req[r].kind = "webhook"
    /\ req[r].pc = "issue"
    /\ IF req[r].status = "succeeded"
       THEN send_success_email(r, ok, rejected, sent)
       ELSE ok = {} /\ rejected = {} /\ send_failure_email(r, sent)
    /\ UNCHANGED <<email_verifications, users, tariffs, stripe, payments, files, disk, links, delivered, attempts>>

\* the tail of handle_webhook_event after the flush
handle_webhook_email(r, ok, rejected, sent) ==
    /\ req[r].kind = "webhook"
    /\ req[r].pc = "issue"
    /\ CASE EmailFor(req[r].status) = "success" ->
                send_success_email(r, ok, rejected, sent)
         [] EmailFor(req[r].status) = "failure" ->
                ok = {} /\ rejected = {} /\ send_failure_email(r, sent)
         [] OTHER -> /\ ok = {} /\ rejected = {} /\ ~sent
                     /\ req' = [req EXCEPT ![r].pc = "commit"]
                     /\ UNCHANGED <<outbox, nextToken, issuedFor, served>>
    /\ UNCHANGED <<email_verifications, users, tariffs, stripe, payments, files, disk, links, delivered, attempts>>

\* a write-back that inserts the row when the lookup found no payment
WriteBack_Upsert(row) ==
    {p \in payments : p.stripe_payment_intent_id # row.stripe_payment_intent_id}
    \cup {[row EXCEPT !.status = "succeeded"]}

\* the committed payments table after the session's row is written back
WriteBack(row) ==
    IF row = NoRow THEN payments
    ELSE {p \in payments : p.stripe_payment_intent_id # row.stripe_payment_intent_id}
         \cup {row}

\* await session.commit() in stripe_webhook, then the acknowledgment
webhook_commit(r) ==
    /\ req[r].kind = "webhook"
    /\ req[r].pc = "commit"
    /\ ~req[r].aborted
    /\ payments' = WriteBack(req[r].row)
    /\ links' = links \cup req[r].pending
    /\ req' = [req EXCEPT ![r] = Answered("webhook", 200)]
    /\ UNCHANGED <<served, email_verifications, users, tariffs, stripe, files, disk, outbox, nextToken, issuedFor,
                   delivered, attempts>>

\* the failure of the commit swallowed: the acknowledgment is returned
webhook_commit_fails_Swallowed(r) ==
    /\ req[r].kind = "webhook"
    /\ req[r].pc = "commit"
    /\ req[r].row # NoRow
    /\ req' = [req EXCEPT ![r] = Answered("webhook", 200)]
    /\ UNCHANGED <<served, email_verifications, users, tariffs, stripe, payments, files, disk, links, outbox, nextToken,
                   issuedFor, delivered, attempts>>

\* the commit raises: get_session rolls the transaction back, 500 is returned
webhook_commit_fails(r) ==
    /\ req[r].kind = "webhook"
    /\ req[r].pc = "commit"
    /\ req[r].row # NoRow
    /\ req' = [req EXCEPT ![r] = Answered("webhook", 500)]
    /\ UNCHANGED <<served, email_verifications, users, tariffs, stripe, payments, files, disk, links, outbox, nextToken,
                   issuedFor, delivered, attempts>>

\* ----------------------------------------------------------- download_file
\* the limit check written with > instead of >=
LimitReached_Strict(download_link) ==
    download_link.downloads_count > download_link.max_downloads

\* "Check download limit"
LimitReached(download_link) ==
    download_link.downloads_count >= download_link.max_downloads

\* GET /files/download/{download_uuid}: link lookup and limit check
download_file(r, t) ==
    /\ Free(r)
    /\ attempts < MaxAttempts
    /\ attempts' = attempts + 1
    /\ LET base == [Idle EXCEPT !.kind = "download", !.token = t]
           download_link == get_download_link_by_uuid(t)
       IN  req' = [req EXCEPT ![r] =
             IF download_link = NoLink
             THEN Downloaded(t, 404)
             ELSE IF LimitReached(download_link)
             THEN Downloaded(t, 410)
             ELSE [base EXCEPT !.pc = "file",
                               !.seen = download_link.downloads_count,
                               !.file_id = download_link.file_id]]
    /\ UNCHANGED <<served, email_verifications, users, tariffs, stripe, payments, files, disk, links, outbox, nextToken,
                   issuedFor, delivered>>

\* download_file: file record lookup and the check of the file on disk
download_file_path(r) ==
    /\ req[r].kind = "download"
    /\ req[r].pc = "file"
    /\ req' = [req EXCEPT ![r] =
         IF get_file_by_id(req[r].file_id) = {} \/ req[r].file_id \notin disk
         THEN Downloaded(req[r].token, 404)
         ELSE [req[r] EXCEPT !.pc = "incr"]]
    /\ UNCHANGED <<served, email_verifications, users, tariffs, stripe, payments, files, disk, links, outbox, nextToken,
                   issuedFor, delivered, attempts>>

\* the value the session writes: its own loaded downloads_count plus one
Incremented(seen) == seen + 1

\* FileService.increment_download_count and the commit that follows it.  The
\* session already holds the link object, so the second select returns that
\* object unrefreshed and the UPDATE stores the count it loaded plus one.
increment_download_count(r) ==
    /\ req[r].kind = "download"
    /\ req[r].pc = "incr"
    /\ LET link == get_download_link_by_uuid(req[r].token)
       IN  links' = IF link = NoLink THEN links
                    ELSE (links \ {link}) \cup
                         {[link EXCEPT !.downloads_count = Incremented(req[r].seen)]}
    /\ req' = [req EXCEPT ![r] = Downloaded(req[r].token, 200)]
    /\ served' = [served EXCEPT ![req[r].token] = @ + 1]
    /\ UNCHANGED <<email_verifications, users, tariffs, stripe, payments, files, disk, outbox, nextToken,
                   issuedFor, delivered, attempts>>

\* --------------------------------------------------------------- admin
\* DELETE /files/{file_id}: unlink the physical file, delete the record (the
\* foreign key cascades to download_links); committed tells whether the
\* request's commit went through.
delete_file(f, committed) ==
    /\ get_file_by_id(f) # {}
    /\ \A r \in Requests : \A l \in req[r].pending : l.file_id # f
    /\ disk' = disk \ {f}
    /\ files' = IF committed THEN files \ get_file_by_id(f) ELSE files
    /\ links' = IF committed THEN {l \in links : l.file_id # f} ELSE links
    /\ UNCHANGED <<served, email_verifications, users, tariffs, stripe, payments, outbox, req, nextToken, issuedFor,
                   delivered, attempts>>

\* payments.user_id is ForeignKey("users.id", ondelete="CASCADE"): the rows
\* of the payments table that survive the deletion of user u
PaymentsAfterUserDelete(u) == {p \in payments : p.user_id # u}

\* DELETE /users/{user_id}: session.delete(user), flush, commit
delete_user(u) ==
    /\ \E x \in users : x.id = u
    /\ users' = {x \in users : x.id # u}
    /\ payments' = PaymentsAfterUserDelete(u)
    /\ UNCHANGED <<served, email_verifications, tariffs, stripe, files, disk, links, outbox, req,
                   nextToken, issuedFor, delivered, attempts>>

\* payments.tariff_id is ForeignKey("tariffs.id", ondelete="SET NULL"): the
\* payments table after the deletion of tariff t
PaymentsAfterTariffDelete(t) ==
    {IF p.tariff_id = t THEN [p EXCEPT !.tariff_id = NoTariff] ELSE p : p \in payments}

\* DELETE /tariffs/{tariff_id}: unlink the physical files of the tariff and
\* delete the tariff; the foreign keys cascade to tariff_files and from there
\* to download_links and null the tariff of its payments; committed tells
\* whether the request's commit went through.
delete_tariff(t, committed) ==
    /\ TariffById(t) # {}
    /\ \A r \in Requests : \A l \in req[r].pending :
          l.file_id \notin {f.id : f \in FilesOfTariff(t)}
    /\ disk' = disk \ {f.id : f \in FilesOfTariff(t)}
    /\ tariffs' = IF committed THEN tariffs \ TariffById(t) ELSE tariffs
    /\ files' = IF committed THEN files \ FilesOfTariff(t) ELSE files
    /\ links' = IF committed
                THEN {l \in links : l.file_id \notin {f.id : f \in FilesOfTariff(t)}}
                ELSE links
    /\ payments' = IF committed THEN PaymentsAfterTariffDelete(t) ELSE payments
    /\ UNCHANGED <<served, email_verifications, users, stripe, outbox, req, nextToken, issuedFor,
                   delivered, attempts>>

\* ------------------------------------------------------------- accounts
\* select(User).where(email == e)
get_user_by_email(e) == {u \in users : u.email = e}

\* the slot of an answered accounts request about email e
AccountAnswered(kind, e, code) == [Answered(kind, code) EXCEPT !.email = e]

\* POST /auth/send-verification-code: refuses a verified address, applies the
\* rate limit (limited: the last code for the address is too recent), creates
\* the unverified user when the address is new, stores a fresh code and mails
\* it; when the mail provider refuses (sent = FALSE) everything is rolled back.
send_verification_code(r, email, limited, sent) ==
    LET existing_user == get_user_by_email(email)
        last_verification == {v \in email_verifications : v.email = email}
        code == Cardinality(email_verifications) + 1
        fresh == CHOOSE id \in UserIds : id \notin {u.id : u \in users}
    IN  /\ Free(r)
        /\ Cardinality(email_verifications) < Cardinality(SeedVerifications) + MaxCodes
        /\ Cardinality(users) < Cardinality(UserIds)
        /\ limited => last_verification # {}
        /\ IF \E u \in existing_user : u.is_verified
           THEN /\ req' = [req EXCEPT ![r] = AccountAnswered("send_code", email, 400)]
                /\ UNCHANGED <<users, email_verifications>>
           ELSE IF limited
           THEN /\ req' = [req EXCEPT ![r] = AccountAnswered("send_code", email, 429)]
                /\ UNCHANGED <<users, email_verifications>>
           ELSE IF ~sent
           THEN /\ req' = [req EXCEPT ![r] = AccountAnswered("send_code", email, 503)]
                /\ UNCHANGED <<users, email_verifications>>
           ELSE /\ users' = IF existing_user = {}
                            THEN users \cup {[id |-> fresh, email |-> email,
                                              is_verified |-> FALSE]}
                            ELSE users
                /\ email_verifications' = email_verifications \cup
                      {[email |-> email, code |-> code, verified_at |-> FALSE]}
                /\ req' = [req EXCEPT ![r] = AccountAnswered("send_code", email, 200)]
        /\ UNCHANGED <<served, tariffs, stripe, payments, files, disk, links, outbox,
                       nextToken, issuedFor, delivered, attempts>>

\* UserService.verify_user: user.is_verified = True on the user of the email
verify_user(email) ==
    {IF u.email = email THEN [u EXCEPT !.is_verified = TRUE] ELSE u : u \in users}

\* POST /auth/verify-code: the unredeemed record matching the code; expired
\* tells whether its expires_at has passed.  A redeemed record no longer
\* matches, so its attempts counter never reaches the maximum.
verify_code(r, code, expired) ==
    LET matching == {v \in email_verifications : v.code = code /\ ~v.verified_at}
    IN  /\ Free(r)
        /\ IF matching = {} \/ expired
           THEN /\ req' = [req EXCEPT ![r] = AccountAnswered("verify_code", "", 400)]
                /\ UNCHANGED <<users, email_verifications>>
           ELSE LET verification == CHOOSE v \in matching : TRUE
                IN  IF get_user_by_email(verification.email) = {}
                    THEN /\ req' = [req EXCEPT ![r] =
                               AccountAnswered("verify_code", verification.email, 404)]
                         /\ UNCHANGED <<users, email_verifications>>
                    ELSE /\ users' = verify_user(verification.email)
                         /\ email_verifications' =
                               (email_verifications \ {verification}) \cup
                               {[verification EXCEPT !.verified_at = TRUE]}
                         /\ req' = [req EXCEPT ![r] =
                               AccountAnswered("verify_code", verification.email, 200)]
        /\ UNCHANGED <<served, tariffs, stripe, payments, files, disk, links, outbox,
                       nextToken, issuedFor, delivered, attempts>>

\* the user row after update_user assigned the new email: "user.email = email"
UpdatedUser(user, email) == [user EXCEPT !.email = email]

\* PATCH /users/{user_id} (admin): changes the email when it differs from the
\* stored one and no other user holds it
update_user(r, u, email) ==
    LET found == {x \in users : x.id = u}
    IN  /\ Free(r)
        /\ IF found = {}
           THEN /\ req' = [req EXCEPT ![r] = AccountAnswered("update_user", email, 404)]
                /\ users' = users
           ELSE LET user == CHOOSE x \in found : TRUE
                IN  IF email = user.email
                    THEN /\ req' = [req EXCEPT ![r] =
                               AccountAnswered("update_user", email, 200)]
                         /\ users' = users
                    ELSE IF get_user_by_email(email) # {}
                    THEN /\ req' = [req EXCEPT ![r] =
                               AccountAnswered("update_user", email, 400)]
                         /\ users' = users
                    ELSE /\ users' = (users \ {user}) \cup {UpdatedUser(user, email)}
                         /\ req' = [req EXCEPT ![r] =
                               AccountAnswered("update_user", email, 200)]
        /\ UNCHANGED <<served, email_verifications, tariffs, stripe, payments, files,
                       disk, links, outbox, nextToken, issuedFor, delivered, attempts>>

\* ------------------------------------------------------- specifications
\* an intent of the processor's account that has no Payment here
UnknownIntent == MaxPayments + 1
EventInputs == (Intents \cup {NoIntent, UnknownIntent}) \X Statuses
KnownTokens == {l.download_uuid : l \in links} \cup {NoToken}

\* Spec: the payment lifecycle, requests served one after the other
Next ==
    \/ \E i \in Intents, s \in PendingFamily :
          /\ Quiet /\ i = Cardinality(stripe) + 1
          /\ create_payment_intent(1, UserEmail, "t1", TRUE, i, s)
    \/ \E valid, handled \in BOOLEAN, e \in EventInputs :
          Quiet /\ stripe_webhook(1, valid, handled, e[1], e[2])
    \/ handle_webhook_event(1)
    \/ webhook_flush_fails(1)
    \/ \E ok, rejected \in SUBSET files, sent \in BOOLEAN :
          handle_webhook_email(1, ok, rejected, sent)
    \/ webhook_commit(1)
    \/ webhook_commit_fails(1)

Spec == Init /\ [][Next]_vars

\* SpecWebhooks: webhook deliveries of the processor overlap; each runs in
\* its own session and they interleave at every await.
NextWebhooks ==
    \/ \E i \in Intents, s \in PendingFamily :
          /\ i = Cardinality(stripe) + 1
          /\ create_payment_intent(NumRequests, UserEmail, "t1", TRUE, i, s)
    \/ \E r \in 1..NumWebhooks, e \in Intents \X Statuses :
          stripe_webhook(r, TRUE, TRUE, e[1], e[2])
    \/ \E r \in 1..NumWebhooks : handle_webhook_event(r)
    \/ \E r \in 1..NumWebhooks : webhook_flush_fails(r)
    \/ \E r \in 1..NumWebhooks, ok, rejected \in SUBSET files, sent \in BOOLEAN :
          handle_webhook_email(r, ok, rejected, sent)
    \/ \E r \in 1..NumWebhooks : webhook_commit(r)
    \/ \E r \in 1..NumWebhooks : webhook_commit_fails(r)

SpecWebhooks == Init /\ [][NextWebhooks]_vars

\* SpecPurchase: purchase requests with every kind of body, served one after
\* the other, against a processor that may refuse the call
NextPurchase ==
    \E email \in Emails, tariff \in TariffIds, accepted \in BOOLEAN,
       i \in 1..MaxPurchases, s \in PendingFamily :
        /\ i = Cardinality(stripe) + 1
        /\ create_payment_intent(1, email, tariff, accepted, i, s)

SpecPurchase == Init /\ [][NextPurchase]_vars

\* SpecAdmin: purchases and their 'succeeded' webhooks served one after the
\* other, while the administrator deletes users, tariffs and files
NextAdmin ==
    \/ \E tariff \in Tariffs, i \in Intents :
          /\ Quiet /\ i = Cardinality(stripe) + 1
          /\ create_payment_intent(1, UserEmail, tariff, TRUE, i,
                                   "requires_payment_method")
    \/ \E i \in Intents : Quiet /\ stripe_webhook(1, TRUE, TRUE, i, "succeeded")
    \/ handle_webhook_event(1)
    \/ \E ok, rejected \in SUBSET files, sent \in BOOLEAN :
          handle_webhook_email(1, ok, rejected, sent)
    \/ webhook_commit(1)
    \/ \E u \in {x.id : x \in SeedUsers} : Quiet /\ delete_user(u)
    \/ \E t \in Tariffs, committed \in BOOLEAN : Quiet /\ delete_tariff(t, committed)
    \/ \E f \in 1..2, committed \in BOOLEAN : Quiet /\ delete_file(f, committed)

SpecAdmin == Init /\ [][NextAdmin]_vars

\* SpecLedger: several purchases and webhook deliveries about any of them
\* that overlap, each in its own session; no file is available for minting
NextLedger ==
    \/ \E tariff \in Tariffs, i \in 1..MaxPurchases :
          /\ i = Cardinality(stripe) + 1
          /\ create_payment_intent(NumRequests, UserEmail, tariff, TRUE, i,
                                   "requires_payment_method")
    \/ \E r \in 1..NumWebhooks, i \in 1..MaxPurchases,
          s \in {"processing", "succeeded"} :
          stripe_webhook(r, TRUE, TRUE, i, s)
    \/ \E r \in 1..NumWebhooks : handle_webhook_event(r)
    \/ \E r \in 1..NumWebhooks : handle_webhook_email(r, {}, {}, TRUE)
    \/ \E r \in 1..NumWebhooks : webhook_commit(r)

SpecLedger == Init /\ [][NextLedger]_vars

\* SpecAccounts: verification, purchases and the administrator's user
\* updates, served one after the other
NextAccounts ==
    \/ \E email \in Emails, limited, sent \in BOOLEAN :
          send_verification_code(1, email, limited, sent)
    \/ \E code \in 1..(Cardinality(SeedVerifications) + MaxCodes), expired \in BOOLEAN :
          verify_code(1, code, expired)
    \/ \E u \in UserIds, email \in Emails : update_user(1, u, email)
    \/ \E email \in Emails, i \in Intents :
          /\ i = Cardinality(stripe) + 1
          /\ create_payment_intent(1, email, "t1", TRUE, i, "requires_payment_method")

SpecAccounts == Init /\ [][NextAccounts]_vars

\* the links minted for the two seeded files by the first 'succeeded' webhook
IssuedLinks ==
    {[download_uuid |-> f.id, file_id |-> f.id, user_email |-> UserEmail,
      downloads_count |-> 0, max_downloads |-> MaxUses] : f \in SeedFiles}

\* The state after one purchase went through: create_payment_intent, then a
\* 'succeeded' webhook that minted a link for both files and sent the email.
InitIssued ==
    /\ users = SeedUsers
    /\ tariffs = SeedTariffs
    /\ payments = {[stripe_payment_intent_id |-> 1, user_id |-> UserId,
                    tariff_id |-> "t1", amount |-> 4900, currency |-> "usd",
                    status |-> "succeeded"]}
    /\ stripe = {[id |-> 1, amount |-> 4900, status |-> "requires_payment_method"]}
    /\ files = SeedFiles
    /\ disk = {1, 2}
    /\ links = IssuedLinks
    /\ outbox = <<[kind |-> "success", to |-> {UserEmail}, intent |-> 1,
                   urls |-> {1, 2},
                   accepted |-> TRUE]>>
    /\ req = [r \in Requests |-> IF r = 1 THEN Answered("webhook", 200) ELSE Idle]
    /\ nextToken = 3
    /\ issuedFor = <<1, 1>>
    /\ delivered = 1
    /\ attempts = 0
    /\ served = <<0, 0>>
    /\ email_verifications = SeedVerifications

\* SpecRedeem: download requests served one after the other, while the
\* administrator may delete files
NextRedeem ==
    \/ \E t \in KnownTokens : Quiet /\ download_file(1, t)
    \/ download_file_path(1)
    \/ increment_download_count(1)
    \/ \E f \in 1..2, committed \in BOOLEAN : Quiet /\ delete_file(f, committed)

SpecRedeem == InitIssued /\ [][NextRedeem]_vars

\* SpecDownloads: download requests overlap; each runs in its own session
NextDownloads ==
    \/ \E r \in Requests, t \in KnownTokens : download_file(r, t)
    \/ \E r \in Requests : download_file_path(r)
    \/ \E r \in Requests : increment_download_count(r)
    \/ \E f \in 1..2, committed \in BOOLEAN : delete_file(f, committed)

SpecDownloads == InitIssued /\ [][NextDownloads]_vars

\* InitIssued is a state of Spec (checked as the negation of an invariant)
IssuedReachable ==
    /\ payments = {[stripe_payment_intent_id |-> 1, user_id |-> UserId,
                    tariff_id |-> "t1", amount |-> 4900, currency |-> "usd",
                    status |-> "succeeded"]}
    /\ links = IssuedLinks
    /\ outbox = <<[kind |-> "success", to |-> {UserEmail}, intent |-> 1,
                   urls |-> {1, 2},
                   accepted |-> TRUE]>>
    /\ req[1] = Answered("webhook", 200)
    /\ nextToken = 3 /\ issuedFor = <<1, 1>> /\ served = <<0, 0>>
    /\ delivered = 1 /\ attempts = 0
NotIssued == ~IssuedReachable

\* ------------------------------------------------------------- properties
\* committed links minted on behalf of the payment of intent i for file f
LinksFor(i, f) ==
    {l \in links : issuedFor[l.download_uuid] = i /\ l.file_id = f}

\* success notifications dispatched for the payment of intent i
SuccessEmails(i) ==
    {k \in 1..Len(outbox) : outbox[k].kind = "success" /\ outbox[k].intent = i}

\* the payment of intent i has a committed link for every file of its tariff
\* and its success notification went out
FullyIssued(i) ==
    /\ SuccessEmails(i) # {}
    /\ \A f \in FilesOfTariff(PaymentByIntent(i).tariff_id) : LinksFor(i, f.id) # {}

\* request r is at the side-effect step of handle_webhook_event
Issuing(r) == req[r].kind = "webhook" /\ req[r].pc = "issue"

\* the step taken by request r mints nothing and dispatches nothing
NoSideEffect(r) == outbox' = outbox /\ req'[r].pending = {}

\* C1: redelivering the 'succeeded' event of a payment that is already
\* committed as succeeded, with its links minted and its notification sent,
\* mints no further link and sends no further success notification, and the
\* status stays succeeded.
C1_RedeliveryIsNoOp ==
    [][\A r \in Requests :
          ( /\ Issuing(r)
            /\ req[r].status = "succeeded"
            /\ req[r].old_status = "succeeded"
            /\ FullyIssued(req[r].intent) )
          => (NoSideEffect(r) /\ req'[r].row.status = "succeeded")]_vars

\* C3: a 'succeeded' webhook that read the payment before a concurrent
\* 'succeeded' webhook for the same intent committed its links and sent its
\* notification does not issue the entitlements a second time.
C3_ConcurrentSucceededIssueOnce ==
    [][\A r \in Requests :
          ( /\ Issuing(r)
            /\ req[r].status = "succeeded"
            /\ req[r].old_status # "succeeded"
            /\ PaymentByIntent(req[r].intent).status = "succeeded"
            /\ FullyIssued(req[r].intent) )
          => NoSideEffect(r)]_vars

\* C4: at most one committed DownloadLink per (payment, file) pair
C4_OneLinkPerPaymentFile ==
    \A p \in payments : \A f \in files :
        Cardinality(LinksFor(p.stripe_payment_intent_id, f.id)) <= 1

\* C7: a payment whose status is not terminal has no DownloadLink
C7_NoLinkBeforeTerminal ==
    \A p \in payments :
        p.status \notin Terminal =>
            \A l \in links : issuedFor[l.download_uuid] # p.stripe_payment_intent_id

\* C9: once a payment is committed in a terminal status, a later webhook for
\* it mints nothing and dispatches no notification.
C9_TerminalNoSideEffect ==
    [][\A r \in Requests :
          (Issuing(r) /\ req[r].old_status \in Terminal) => NoSideEffect(r)]_vars

\* C10: a committed terminal status is never replaced by a non-terminal one
C10_TerminalStaysTerminal ==
    [][\A p \in payments :
          p.status \in Terminal =>
            \A q \in payments' :
                q.stripe_payment_intent_id = p.stripe_payment_intent_id
                    => q.status \in Terminal]_vars

\* C8: a DownloadLink is minted only by a webhook request that passed the
\* signature check, carries status 'succeeded' and found its payment; every
\* row that appears in download_links was minted that way.
C8_MintOnlyOnSucceededWebhook ==
    [][ /\ \A r \in Requests :
              (req'[r].pending # {} /\ req'[r].pending # req[r].pending) =>
                  /\ Issuing(r)
                  /\ req[r].status = "succeeded"
                  /\ PaymentByIntent(req[r].row.stripe_payment_intent_id) # NoRow
        /\ \A l \in links' :
              l.download_uuid \notin {k.download_uuid : k \in links} =>
                  \E r \in Requests :
                      /\ req[r].kind = "webhook"
                      /\ req[r].pc = "commit"
                      /\ req[r].status = "succeeded"
                      /\ l \in req[r].pending ]_vars

\* a webhook has been acknowledged and links it minted are committed
C8_Witness == links # {} /\ req[1] = Answered("webhook", 200)

\* C2: on every link the number of granted downloads never exceeds
\* max_downloads, whatever the interleaving of the requests.
C2_AtMostMaxDownloadsGranted ==
    \A l \in links : served[l.download_uuid] <= l.max_downloads

\* C5: downloads_count never exceeds max_downloads and no step lowers the
\* downloads_count of a link.
C5_CountBoundedAndMonotonic ==
    [][ /\ \A l \in links' : l.downloads_count <= l.max_downloads
        /\ \A l \in links : \A k \in links' :
              k.download_uuid = l.download_uuid
                  => k.downloads_count >= l.downloads_count ]_vars

\* the step answers a download request of slot 1
Answering ==
    /\ req'[1].kind = "download"
    /\ req'[1].pc = "done"
    /\ (attempts' = attempts + 1 \/ req[1].pc # "done")

\* C6: requests on one token served one after the other: while the count is
\* below max_downloads a request whose file exists is answered 200 and adds
\* exactly one to downloads_count; once the count has reached max_downloads
\* every request is answered 410 and changes nothing.
C6_SequentialRedemption ==
    [][ Answering =>
          LET link == get_download_link_by_uuid(req'[1].token)
          IN  link # NoLink =>
                IF link.downloads_count >= link.max_downloads
                THEN /\ req'[1].result = 410
                     /\ links' = links
                     /\ served' = served
                ELSE (get_file_by_id(link.file_id) # {} /\ link.file_id \in disk) =>
                     /\ req'[1].result = 200
                     /\ links' = (links \ {link}) \cup
                          {[link EXCEPT !.downloads_count = link.downloads_count + 1]} ]_vars

\* a link was redeemed max_downloads times and the next request got 410
C6_Witness ==
    \E l \in links :
        /\ l.downloads_count = l.max_downloads
        /\ served[l.download_uuid] = l.max_downloads
        /\ req[1] = Downloaded(l.download_uuid, 410)

\* C11: a webhook request whose signature does not verify is answered 400
\* at once; the step leaves every Payment and DownloadLink as it was, mints
\* nothing and hands no notification to the dispatcher.
C11_InvalidSignatureRejected ==
    [][\A r \in Requests :
          (req'[r] # req[r] /\ ~req'[r].signed) =>
              /\ req'[r] = Rejected
              /\ req'[r].result = 400
              /\ UNCHANGED <<payments, links, outbox, users, tariffs, stripe, files, nextToken>>]_vars

\* a badly signed webhook was rejected while a payment was on record
C11_Witness == req[1] = Rejected /\ payments # {} /\ links # {}

\* the last call of the notification dispatcher in outbox
LastEmail(box) == box[Len(box)]

\* C12: an authenticated 'succeeded' event for a tracked payment in a
\* non-terminal status, none of whose mints fails: the side-effect step mints
\* exactly one DownloadLink with downloads_count 0 per file of the tariff and
\* then makes one success-notification call carrying exactly the URLs of
\* these links; the commit stores status 'succeeded' and these links.
C12_SucceededIssuesEntitlements ==
    [][\A r \in Requests :
          ( /\ req[r].kind = "webhook"
            /\ req[r].row # NoRow
            /\ req[r].status = "succeeded"
            /\ req[r].old_status \notin Terminal
            /\ req'[r].mint_errors = 0 ) =>
          /\ Issuing(r) =>
                LET F == TariffFilesOf(req[r].row)
                    minted == req'[r].pending
                IN  /\ req'[r].row.status = "succeeded"
                    /\ Cardinality(minted) = Cardinality(F)
                    /\ \A f \in F :
                          Cardinality({l \in minted : l.file_id = f.id
                                         /\ l.downloads_count = 0}) = 1
                    /\ \A l \in minted : \A k \in links :
                          k.download_uuid # l.download_uuid
                    /\ outbox' = Append(outbox, LastEmail(outbox'))
                    /\ LastEmail(outbox').kind = "success"
                    /\ LastEmail(outbox').intent = req[r].intent
                    /\ LastEmail(outbox').urls = {l.download_uuid : l \in minted}
                    /\ Cardinality(LastEmail(outbox').urls) = Cardinality(F)
          /\ (req[r].pc = "commit" /\ req'[r] = Answered("webhook", 200)) =>
                /\ \E p \in payments' :
                      /\ p.stripe_payment_intent_id = req[r].intent
                      /\ p.status = "succeeded"
                /\ links' = links \cup req[r].pending
                /\ outbox' = outbox]_vars

\* one purchase went through: the payment is succeeded, both files of the
\* tariff have their link with no download yet and one success notification
\* carrying both URLs was handed to the dispatcher
C12_Witness ==
    /\ payments # {} /\ \A p \in payments : p.status = "succeeded"
    /\ Cardinality(links) = 2 /\ \A l \in links : l.downloads_count = 0
    /\ Len(outbox) = 1
    /\ outbox[1].kind = "success" /\ outbox[1].urls = {l.download_uuid : l \in links}
    /\ req[1] = Answered("webhook", 200)

\* C13: an authenticated 'failed' or 'canceled' event for a tracked payment
\* in a non-terminal status: the stored status becomes the event's status,
\* exactly one failure-notification call addressed to the purchaser is made
\* and no DownloadLink is minted.
C13_FailureNotifiesOnce ==
    [][\A r \in Requests :
          ( /\ req[r].kind = "webhook"
            /\ req[r].row # NoRow
            /\ req[r].status \in {"failed", "canceled"}
            /\ req[r].old_status \notin Terminal ) =>
          /\ Issuing(r) =>
                /\ req'[r].row.status = req[r].status
                /\ req'[r].pending = {}
                /\ nextToken' = nextToken
                /\ outbox' = Append(outbox, LastEmail(outbox'))
                /\ LastEmail(outbox').kind = "failure"
                /\ LastEmail(outbox').intent = req[r].intent
                /\ LastEmail(outbox').to =
                      {u.email : u \in {v \in users : v.id = req[r].row.user_id}}
                /\ LastEmail(outbox').to # {}
          /\ (req[r].pc = "commit" /\ req'[r] = Answered("webhook", 200)) =>
                /\ \E p \in payments' :
                      /\ p.stripe_payment_intent_id = req[r].intent
                      /\ p.status = req[r].status
                /\ links' = links
                /\ outbox' = outbox]_vars

\* a payment was committed as canceled with one failure notification and no
\* link
C13_Witness ==
    /\ payments # {} /\ \A p \in payments : p.status = "canceled"
    /\ links = {}
    /\ Len(outbox) = 1 /\ outbox[1].kind = "failure" /\ outbox[1].to = {UserEmail}
    /\ req[1] = Answered("webhook", 200)

\* C14: processing an event whose status equals the terminal status the
\* payment already has is a no-op: the request mints nothing, calls the
\* dispatcher for no notification, and its commit leaves payments and
\* download_links as they were.
C14_SameTerminalStatusIsNoOp ==
    [][\A r \in Requests :
          ( /\ req[r].kind = "webhook"
            /\ req[r].row # NoRow
            /\ req[r].old_status \in Terminal
            /\ req[r].status = req[r].old_status ) =>
          /\ Issuing(r) => NoSideEffect(r)
          /\ req[r].pc = "commit" => (payments' = payments /\ links' = links)]_vars

\* C15: when the call of the dispatcher fails during a webhook, the request
\* is not aborted: it goes on to the commit with the status it wrote and the
\* links it minted, and the commit that acknowledges it with 200 stores that
\* status and those links.
C15_NotificationFailureOnlyLogged ==
    [][\A r \in Requests :
          /\ (Issuing(r) /\ outbox' # outbox /\ ~LastEmail(outbox').accepted) =>
                /\ req'[r].pc = "commit"
                /\ req'[r].row = req[r].row
                /\ req'[r].row.status = req[r].status
                /\ {l.download_uuid : l \in req'[r].pending} = LastEmail(outbox').urls
          /\ ( /\ req[r].kind = "webhook" /\ req[r].pc = "commit"
               /\ req[r].row # NoRow
               /\ outbox # <<>> /\ ~LastEmail(outbox).accepted
               /\ req'[r] = Answered("webhook", 200) ) =>
                /\ req[r].row \in payments'
                /\ req[r].pending \subseteq links']_vars

\* a 'succeeded' webhook whose notification Resend refused was acknowledged
\* with the status and the links committed
C15_Witness ==
    /\ Len(outbox) = 1 /\ outbox[1].kind = "success" /\ ~outbox[1].accepted
    /\ payments # {} /\ \A p \in payments : p.status = "succeeded"
    /\ {l.download_uuid : l \in links} = outbox[1].urls /\ links # {}
    /\ req[1] = Answered("webhook", 200)

\* C16: a webhook request is acknowledged with 200 only by the commit that
\* stores the status it wrote (and the links it minted), or when it changed
\* nothing; when the flush or the commit fails it is answered with an error
\* and payments and download_links stay as they were.
C16_AckOnlyAfterCommit ==
    [][\A r \in Requests :
          (req'[r] # req[r] /\ req'[r].kind = "webhook" /\ req'[r].pc = "done") =>
              IF req'[r].result = 200
              THEN \/ /\ req[r].pc = "commit"
                      /\ req[r].row # NoRow
                      /\ req[r].row.status = req[r].status
                      /\ req[r].row \in payments'
                      /\ req[r].pending \subseteq links'
                   \/ /\ req[r].pc = "commit" => req[r].row = NoRow
                      /\ req[r].pc \notin {"flush", "issue"}
                      /\ payments' = payments
                      /\ links' = links
                      /\ outbox' = outbox
              ELSE /\ req'[r].result \in {400, 500}
                   /\ payments' = payments
                   /\ links' = links]_vars

\* the commit of a 'succeeded' webhook failed: the request was answered 500
\* and the payment is still stored with its earlier status
C16_Witness ==
    /\ req[1] = Answered("webhook", 500)
    /\ outbox # <<>> /\ LastEmail(outbox).kind = "success"
    /\ payments # {} /\ \A p \in payments : p.status \in PendingFamily
    /\ links = {}

\* C17: an authenticated event whose intent id matches no Payment (or that
\* carries no id) is ignored: the request goes straight to the commit with
\* nothing written, is acknowledged with 200, and creates or changes no
\* Payment, no DownloadLink and calls the dispatcher for no notification.
C17_UnknownIntentIgnored ==
    [][\A r \in Requests :
          /\ ( /\ delivered' = delivered + 1
               /\ req'[r] # req[r]
               /\ req'[r].pc # "done"
               /\ PaymentByIntent(req'[r].intent) = NoRow ) =>
                /\ req'[r].pc = "commit"
                /\ req'[r].row = NoRow
                /\ req'[r].pending = {}
                /\ UNCHANGED <<payments, links, outbox, nextToken>>
          /\ ( /\ req[r].kind = "webhook"
               /\ req[r].pc = "commit"
               /\ req[r].row = NoRow
               /\ req'[r] # req[r] ) =>
                /\ req'[r] = Answered("webhook", 200)
                /\ UNCHANGED <<payments, links, outbox, nextToken>>]_vars

\* a 'succeeded' event for an intent without Payment has been looked up and
\* awaits its acknowledgment, while a payment of another intent is on record
C17_Witness ==
    /\ req[1].kind = "webhook" /\ req[1].pc = "commit"
    /\ req[1].intent = UnknownIntent /\ req[1].status = "succeeded"
    /\ req[1].row = NoRow
    /\ PaymentByIntent(req[1].intent) = NoRow
    /\ payments # {}

\* the step answers a purchase request of slot r
Purchasing(r) == req'[r] # req[r] /\ req'[r].kind = "payment"

\* C18: create_payment_intent answers 400 (UserNotVerifiedException) when
\* no verified user has the email, and 404 (TariffNotFoundException) when
\* the purchaser is verified and the tariff does not exist; either way no
\* Payment row is created and the processor is not called.
C18_IneligiblePurchaseRejected ==
    [][\A r \in Requests :
          Purchasing(r) =>
            LET email == req'[r].email
                tariff == req'[r].tariff_id
                untouched == /\ payments' = payments
                             /\ stripe' = stripe
                             /\ req'[r].processor = ""
                             /\ req'[r].intent = NoIntent
            IN  /\ VerifiedUser(email) = {} =>
                      (req'[r].result = 400 /\ untouched)
                /\ TariffById(tariff) = {} =>
                      (req'[r].result \in {400, 404} /\ untouched)
                /\ (VerifiedUser(email) # {} /\ TariffById(tariff) = {}) =>
                      req'[r].result = 404]_vars

\* a purchase by the registered but unverified user was answered 400 after
\* an earlier purchase had been recorded
C18_Witness ==
    /\ req[1] = PaymentAnswered("b@x", "t1", "", NoIntent, 400)
    /\ payments # {}
    /\ Cardinality(stripe) = Cardinality(payments)

\* C19: a successful create_payment_intent adds exactly one Payment; its
\* intent id and its status are the id and the initial status of the
\* PaymentIntent the processor created in this call, whichever status that
\* is; its amount is the price of the tariff; no DownloadLink is created.
C19_PaymentMirrorsIntent ==
    [][\A r \in Requests :
          (Purchasing(r) /\ req'[r].result = 201) =>
            \E p \in payments' \ payments :
            \E payment_intent \in stripe' \ stripe :
                /\ payments' = payments \cup {p}
                /\ stripe' = stripe \cup {payment_intent}
                /\ p.stripe_payment_intent_id = payment_intent.id
                /\ p.stripe_payment_intent_id = req'[r].intent
                /\ p.status = payment_intent.status
                /\ p.amount = payment_intent.amount
                /\ \E t \in TariffById(req'[r].tariff_id) :
                      p.tariff_id = t.id /\ p.amount = t.base_price
                /\ \E u \in VerifiedUser(req'[r].email) : p.user_id = u.id
                /\ links' = links
                /\ req'[r].pending = {}]_vars

\* a purchase whose PaymentIntent started in 'processing' is recorded with
\* that status
C19_Witness ==
    /\ req[1].kind = "payment" /\ req[1].result = 201
    /\ PaymentByIntent(req[1].intent).status = "processing"
    /\ \E payment_intent \in stripe :
          /\ payment_intent.id = req[1].intent
          /\ payment_intent.status = "processing"
    /\ links = {}

\* C20: when the call of the processor fails during create_payment_intent
\* the request is answered with an error and the payments table is unchanged.
C20_ProcessorFailureSurfaces ==
    [][\A r \in Requests :
          (Purchasing(r) /\ req'[r].processor = "error") =>
              /\ req'[r].result = 500
              /\ payments' = payments
              /\ stripe' = stripe]_vars

\* the processor refused a purchase of the verified user after an earlier
\* purchase had been recorded
C20_Witness ==
    /\ req[1] = PaymentAnswered(UserEmail, "t1", "error", NoIntent, 500)
    /\ payments # {}

\* C21: a Payment, once created, is never deleted: every row of the payments
\* table is still there, under its intent id, after every step.
C21_PaymentNeverDeleted ==
    [][\A p \in payments :
          \E q \in payments' :
              q.stripe_payment_intent_id = p.stripe_payment_intent_id]_vars

\* C22: a DownloadLink, once minted and committed, is never deleted: after
\* every step its token still resolves to a link of the same file.
C22_LinkNeverDeleted ==
    [][\A l \in links :
          \E k \in links' :
              k.download_uuid = l.download_uuid /\ k.file_id = l.file_id]_vars

\* C23: a download request whose token matches no DownloadLink is answered
\* 404 at once and changes no downloads_count (nor any other field of a link).
C23_UnknownTokenNotFound ==
    [][\A r \in Requests :
          ( /\ attempts' = attempts + 1
            /\ req'[r] # req[r]
            /\ \A l \in links : l.download_uuid # req'[r].token ) =>
              /\ req'[r] = Downloaded(req'[r].token, 404)
              /\ links' = links
              /\ served' = served]_vars

\* a request with an unknown token was answered 404 while links were on
\* record, one of them already redeemed once
C23_Witness ==
    /\ req[1] = Downloaded(NoToken, 404)
    /\ \E l \in links : l.downloads_count = 1

\* C24: during the issuance for a 'succeeded' event, a failure of the mint
\* for one file does not abort the others: every file of the tariff whose
\* own mint did not fail gets its DownloadLink in the same request, and the
\* success notification carries exactly the URLs of the minted links.
C24_MintFailureIsolated ==
    [][\A r \in Requests :
          ( /\ Issuing(r)
            /\ req[r].row # NoRow
            /\ req[r].status = "succeeded" ) =>
              LET F == TariffFilesOf(req[r].row)
                  minted == req'[r].pending
              IN  /\ \A f \in F :
                        f.id \notin req'[r].broken =>
                            \E l \in minted : l.file_id = f.id
                  /\ LastEmail(outbox').urls = {l.download_uuid : l \in minted}]_vars

\* C25: a 'succeeded' event for a tracked payment whose tariff was deleted
\* (tariff_id is null) or owns no file: nothing is minted, one success
\* notification is dispatched with an empty link set, and the request is
\* acknowledged with the succeeded status committed and no link added.
C25_NoFilesStillSucceeds ==
    [][\A r \in Requests :
          ( /\ req[r].kind = "webhook"
            /\ req[r].row # NoRow
            /\ req[r].status = "succeeded"
            /\ \A x \in files : x.tariff_id # req[r].row.tariff_id ) =>
          /\ Issuing(r) =>
                /\ req'[r].pc = "commit"
                /\ req'[r].pending = {}
                /\ ~req'[r].aborted
                /\ nextToken' = nextToken
                /\ outbox' = Append(outbox, LastEmail(outbox'))
                /\ LastEmail(outbox').kind = "success"
                /\ LastEmail(outbox').intent = req[r].intent
                /\ LastEmail(outbox').urls = {}
          /\ (req[r].pc = "commit" /\ req'[r] # req[r]) =>
                /\ req'[r] = Answered("webhook", 200)
                /\ \E p \in payments' :
                      /\ p.stripe_payment_intent_id = req[r].intent
                      /\ p.status = "succeeded"
                /\ links' = links]_vars

\* the payment of a deleted tariff was committed as succeeded, with one
\* success notification without links and no DownloadLink
C25_Witness ==
    /\ payments # {}
    /\ \A p \in payments : p.tariff_id = NoTariff /\ p.status = "succeeded"
    /\ links = {}
    /\ Len(outbox) = 1 /\ outbox[1].kind = "success" /\ outbox[1].urls = {}
    /\ req[1] = Answered("webhook", 200)

\* C26: an authenticated event whose status is none of succeeded, failed and
\* canceled, for a tracked payment, only records the new status: the step
\* after the flush mints no link and calls no notifier, and the commit stores
\* the event's status and adds no link.
C26_OtherStatusOnlyRecorded ==
    [][\A r \in Requests :
          ( /\ req[r].kind = "webhook"
            /\ req[r].signed
            /\ req[r].row # NoRow
            /\ req[r].status \notin Terminal ) =>
          /\ Issuing(r) =>
                /\ req'[r] = [req[r] EXCEPT !.pc = "commit"]
                /\ req[r].row.status = req[r].status
                /\ req[r].pending = {}
                /\ outbox' = outbox
                /\ nextToken' = nextToken
                /\ links' = links /\ payments' = payments
          /\ (req[r].pc = "commit" /\ req'[r] = Answered("webhook", 200)) =>
                /\ \E p \in payments' :
                      /\ p.stripe_payment_intent_id = req[r].intent
                      /\ p.status = req[r].status
                /\ links' = links
                /\ outbox' = outbox]_vars

\* a 'processing' event of a payment stored as requires_payment_method has
\* passed the step after the flush and waits for the commit, nothing minted
\* or dispatched
C26_Witness ==
    /\ req[1].kind = "webhook" /\ req[1].pc = "commit"
    /\ req[1].row # NoRow
    /\ req[1].status = "processing"
    /\ req[1].old_status = "requires_payment_method"
    /\ req[1].pending = {}
    /\ outbox = <<>>

\* C27: no two payments share an intent id; no step changes the intent id,
\* purchaser, amount or currency of a stored payment; a step of a webhook
\* request changes at most the status of the payment whose intent id the
\* event names, and adds no payment.
C27_PaymentIdentityFrozen ==
    [][ /\ \A p, q \in payments' :
              p.stripe_payment_intent_id = q.stripe_payment_intent_id => p = q
        /\ \A p \in payments : \A q \in payments' :
              q.stripe_payment_intent_id = p.stripe_payment_intent_id =>
                  /\ q.user_id = p.user_id
                  /\ q.amount = p.amount
                  /\ q.currency = p.currency
        /\ \A r \in Requests :
              (req[r].kind = "webhook" /\ req'[r] # req[r]) =>
                  /\ \A p \in payments :
                        IF p.stripe_payment_intent_id = req[r].intent
                        THEN \E q \in payments' : [q EXCEPT !.status = p.status] = p
                        ELSE p \in payments'
                  /\ \A q \in payments' :
                        \E p \in payments :
                            p.stripe_payment_intent_id = q.stripe_payment_intent_id
      ]_vars

\* two payments are stored, a webhook committed 'succeeded' on the second
\* one and the first one still has the status it was created with
C27_Witness ==
    /\ \E p, q \in payments :
          /\ p.stripe_payment_intent_id = 1 /\ p.status = "requires_payment_method"
          /\ q.stripe_payment_intent_id = 2 /\ q.status = "succeeded"
    /\ \E r \in 1..NumWebhooks : req[r] = Answered("webhook", 200)

\* C28: every redemption URL of a success notification that the mail
\* provider accepted refers to a DownloadLink that is committed, or that is
\* still pending in the webhook request that sent it and has not yet
\* finished; no notification outlives a rolled-back webhook transaction.
C28_NotifiedLinksAreCommitted ==
    \A k \in 1..Len(outbox) :
        (outbox[k].kind = "success" /\ outbox[k].accepted) =>
            \A t \in outbox[k].urls :
                \/ \E l \in links : l.download_uuid = t
                \/ \E r \in Requests :
                      /\ req[r].kind = "webhook"
                      /\ req[r].pc = "commit"
                      /\ \E l \in req[r].pending : l.download_uuid = t

\* C29: a step of a download request that does not return the file leaves
\* every downloads_count as it is, and the step that returns the file raises
\* the committed downloads_count of the request's link by exactly one and
\* changes no other link.
C29_OnlySuccessConsumes ==
    [][\A r \in Requests :
          (req[r].kind = "download" /\ req'[r] # req[r]) =>
              IF req'[r] = Downloaded(req[r].token, 200)
              THEN \A l \in links :
                      IF l.download_uuid = req[r].token
                      THEN [l EXCEPT !.downloads_count = l.downloads_count + 1]
                               \in links'
                      ELSE l \in links'
              ELSE links' = links]_vars

\* C30: every user with is_verified = TRUE holds an email for which a
\* verification code was redeemed through verify_code, and a purchase request
\* answered 201 names such an email.
C30_VerifiedMeansConfirmedEmail ==
    LET confirmed == {v.email : v \in {x \in email_verifications : x.verified_at}}
    IN  /\ \A u \in users : u.is_verified => u.email \in confirmed
        /\ \A r \in Requests :
              (req[r].kind = "payment" /\ req[r].result = 201) =>
                  req[r].email \in confirmed
====
